---- MODULE Spec2Model ----
(***************************************************************************)
(* Multi-persona product evaluation pipeline: the agent registry          *)
(* (src/agent_selector.py), the structured-call layer (src/utils/llm.py,  *)
(* src/utils/ollama_utils.py), the persona evaluators (src/agents/*.py)   *)
(* and the evaluation orchestrator (src/orchestrator.py).                 *)
(*                                                                         *)
(* Scores are fixed-point: ScoreScale units stand for 1.0, so that every  *)
(* mean the aggregation computes is an exact integer.                     *)
(***************************************************************************)
EXTENDS Integers, Sequences, FiniteSets, TLC

VARIABLES
    \* ---- agent registry (AgentSelector) ----
    agents,          \* self.agents: id -> [enabled, priority]
    configFile,      \* the JSON configuration file on disk
    lastOp,          \* the last registry operation, its arguments and result
    prevOp,          \* the registry operation before the last one
    \* ---- _save_config step by step, and a second instance loading ----
    writerPc,        \* "idle", or "writing" between open(..., 'w') and close
    docBefore,       \* the file when the mutation in progress (or last) began
    mutations,       \* number of mutations written so far
    readerView,      \* what the loading instance found in the file
    readerAgents,    \* the loading instance's registry after _load_config
    \* ---- one invocation of call_llm_with_model ----
    llmArgs,         \* pydantic_model, max_retries, default_factory, code path
    llmPc,           \* "idle", "loop", "returned", "raised"
    attempt,         \* loop variable of the retry loop
    history,         \* what the backend answered to each call so far
    llmResult,       \* the value returned
    \* ---- one call of ollama_utils.extract_json_from_response ----
    content,         \* the raw model text, a sequence of characters
    extracted,       \* pc "idle", "called", "returned" or "raised", and the value
    \* ---- one invocation of evaluate_product / _combine_insights ----
    evalPc,          \* "idle", "collect", "combine", "returned", "raised"
    product_idea,    \* the idea text
    selected_agents, \* None (given = FALSE) or the list of names
    agent_insights,  \* name -> record or None, filled as the loop runs
    invoked,         \* names of the evaluators called so far, in call order
    answers,         \* what the model answered each evaluator called so far
    raisedAgents,    \* names of the evaluators that raised
    deviations,      \* evaluators answered otherwise than nominally so far
    scores,          \* the 13 buckets after the averaging loop
    evaluation,      \* the ProductEvaluation returned
    recCalls,        \* model calls issued by _generate_recommendations
    evalError,       \* the exception that left the invocation
    backend,         \* "configured", or "none": neither use_ollama nor llm
    user_background, \* the user_background argument of evaluate_product
    ideaRead,        \* the product idea each evaluator called so far read
    advisorRead      \* user_background and agent_insights as the advisor read them

registryVars == <<agents, configFile, lastOp, prevOp>>
concVars == <<writerPc, docBefore, mutations, readerView, readerAgents>>
llmVars == <<llmArgs, llmPc, attempt, history, llmResult, content, extracted>>
evalVars == <<evalPc, product_idea, selected_agents, agent_insights, invoked, answers,
              raisedAgents, deviations, scores, evaluation, recCalls, evalError,
              backend, user_background, ideaRead, advisorRead>>
vars == <<registryVars, concVars, llmVars, evalVars>>

\* no call_llm_with_model invocation
LlmIdle ==
    /\ llmArgs = [schema |-> "", max_retries |-> 0, default_factory |-> FALSE, path |-> ""]
    /\ llmPc = "idle"
    /\ attempt = 0
    /\ history = << >>
    /\ llmResult = [kind |-> "none", schema |-> "", origin |-> "", values |-> << >>]
    /\ content = << >>
    /\ extracted = [pc |-> "idle", parsed |-> FALSE, value |-> << >>]

\* a value of a record or of a parsed JSON object
Num(n) == [kind |-> "float", num |-> n, text |-> "", list |-> << >>]
Txt(t) == [kind |-> "str", num |-> 0, text |-> t, list |-> << >>]
Lst(l) == [kind |-> "list_str", num |-> 0, text |-> "", list |-> l]
Bool(b) == [kind |-> "bool", num |-> IF b THEN 1 ELSE 0, text |-> "", list |-> << >>]
Nested(t) == [kind |-> "model", num |-> 0, text |-> t, list |-> << >>]

EmptyObject == [f \in {} |-> Num(0)]

\* None in a slot of agent_insights
NoneSlot == [type |-> "None", fields |-> EmptyObject]

\* agent_insights = {}
EmptyInsights == [n \in {} |-> NoneSlot]

\* no evaluator has been answered
NoAnswers == [n \in {} |-> ""]

\* the Project Advisor has not been called
NoAdvisorRead == [called |-> FALSE, user_background |-> "", agent_insights |-> EmptyInsights]

\* the keys of scores (orchestrator.py:128-142)
Buckets ==
    {"opportunity_score", "market_potential", "technical_feasibility",
     "scientific_breakthrough_potential", "technical_advancement",
     "research_feasibility", "startup_potential", "ai_infrastructure",
     "platform_potential", "social_impact", "autonomous_systems_score",
     "educational_impact", "innovation_potential"}

ZeroScores == [b \in Buckets |-> 0]

NoEvaluation ==
    [product_idea |-> "", overall_score |-> 0, market_potential |-> 0,
     technical_feasibility |-> 0, innovation_potential |-> 0,
     key_insights |-> << >>, potential_risks |-> << >>,
     agent_insights |-> EmptyInsights, recommendations |-> << >>,
     project_recommendation |-> NoneSlot]

NoSelection == [given |-> FALSE, names |-> << >>]

\* no evaluate_product invocation
EvalIdle ==
    /\ evalPc = "idle"
    /\ product_idea = ""
    /\ selected_agents = NoSelection
    /\ agent_insights = EmptyInsights
    /\ invoked = << >>
    /\ answers = NoAnswers
    /\ raisedAgents = {}
    /\ deviations = 0
    /\ scores = ZeroScores
    /\ evaluation = NoEvaluation
    /\ recCalls = 0
    /\ evalError = ""
    /\ backend = "configured"
    /\ user_background = "None"
    /\ ideaRead = NoAnswers
    /\ advisorRead = NoAdvisorRead

-----------------------------------------------------------------------------
(* Agent registry: src/agent_selector.py                                   *)

\* dict order of self.agents (agent_selector.py:33-80)
RegistrationOrder ==
    << "sam_altman", "demis_hassabis", "elon_musk", "adam_dangelo",
       "daniel_gross", "sebastian_thrun", "emad_mostaque",
       "clement_delangue", "project_advisor" >>

RegisteredIds == { RegistrationOrder[i] : i \in 1..Len(RegistrationOrder) }

PrivilegedId == "project_advisor"

\* an id no AgentConfig is registered under
UnknownId == "unknown_agent"

\* priority=1 .. priority=9 in registration order (agent_selector.py:37-77)
DefaultPriority(id) ==
    CHOOSE i \in 1..Len(RegistrationOrder) : RegistrationOrder[i] = id

\* AgentConfig(enabled=True by default, priority=k)
DefaultAgents ==
    [id \in RegisteredIds |-> [enabled |-> TRUE, priority |-> DefaultPriority(id)]]

\* ---- inputs ----
\* ids the operations are exercised with
AgentIdInputs == {"sam_altman", PrivilegedId, UnknownId}
\* ids the stored documents of Init hold
DocIdInputs == {"sam_altman", PrivilegedId, UnknownId}
\* priorities passed to set_agent_priority or stored in a document
PriorityInputs == {0, 7}
\* longest stored document (number of entries) drawn in Init
MaxDocLen == 2

\* One value of the stored JSON object.  obj = FALSE is a value that is not a
\* JSON object (a number, a string, null); keys is the set of keys the object
\* holds.
EntryValues ==
    { [obj |-> FALSE, keys |-> {}, enabled |-> FALSE, priority |-> 0] }
    \cup
    { [obj |-> TRUE, keys |-> k, enabled |-> e, priority |-> p] :
        k \in SUBSET {"enabled", "priority"},
        e \in BOOLEAN, p \in PriorityInputs }

\* an entry is canonical when the values of the keys it lacks are fixed
CanonicalEntry(v) ==
    /\ ("enabled" \notin v.keys => v.enabled = FALSE)
    /\ ("priority" \notin v.keys => v.priority = 0)

DocEntries ==
    { e \in [id : DocIdInputs, val : EntryValues] : CanonicalEntry(e.val) }

DistinctIds(s) == \A i, j \in 1..Len(s) : i # j => s[i].id # s[j].id

StoredDocs ==
    UNION { { s \in [1..n -> DocEntries] : DistinctIds(s) } : n \in 0..MaxDocLen }

\* The file: absent, a JSON object ("doc", entries in file order), text that
\* json.load rejects or that is no JSON object ("garbage"), or a zero-length
\* file ("empty").
AbsentFile == [kind |-> "absent", entries |-> << >>]
GarbageFile == [kind |-> "garbage", entries |-> << >>]
EmptyFile == [kind |-> "empty", entries |-> << >>]
DocFile(s) == [kind |-> "doc", entries |-> s]

StoredFiles == {AbsentFile, GarbageFile} \cup { DocFile(s) : s \in StoredDocs }

\* config.get("enabled", True) / config.get("priority", 0)
GetEnabled(v) == IF "enabled" \in v.keys THEN v.enabled ELSE TRUE
GetPriority(v) == IF "priority" \in v.keys THEN v.priority ELSE 0

\* LoadEntries with `break` where the code skips an unregistered id
RECURSIVE LoadEntries_break(_, _, _)
LoadEntries_break(ag, entries, i) ==
    IF i > Len(entries) THEN ag
    ELSE LET id == entries[i].id
             v == entries[i].val
         IN IF id \notin DOMAIN ag THEN ag
            ELSE IF ~v.obj THEN ag
            ELSE LoadEntries_break(
                    [ag EXCEPT ![id] = [enabled |-> GetEnabled(v),
                                        priority |-> GetPriority(v)]],
                    entries, i + 1)

\* the for loop of _load_config from entry i on; an entry of a registered id
\* that is no object makes config.get raise, which ends the loop with the
\* entries applied so far
RECURSIVE LoadEntries(_, _, _)
LoadEntries(ag, entries, i) ==
    IF i > Len(entries) THEN ag
    ELSE LET id == entries[i].id
             v == entries[i].val
         IN IF id \notin DOMAIN ag THEN LoadEntries(ag, entries, i + 1)
            ELSE IF ~v.obj THEN ag
            ELSE LoadEntries(
                    [ag EXCEPT ![id] = [enabled |-> GetEnabled(v),
                                        priority |-> GetPriority(v)]],
                    entries, i + 1)

\* does the loop of _load_config raise (caught at agent_selector.py:95)
LoadRaises(file) ==
    \/ file.kind \in {"garbage", "empty"}
    \/ /\ file.kind = "doc"
       /\ \E i \in 1..Len(file.entries) :
            file.entries[i].id \in RegisteredIds /\ ~file.entries[i].val.obj

_load_config(ag, file) ==
    IF file.kind = "doc" THEN LoadEntries(ag, file.entries, 1) ELSE ag

\* config_data of _save_config: every registered id, in dict order
RECURSIVE SaveEntries(_, _)
SaveEntries(ag, i) ==
    IF i > Len(RegistrationOrder) THEN << >>
    ELSE << [id |-> RegistrationOrder[i],
             val |-> [obj |-> TRUE, keys |-> {"enabled", "priority"},
                      enabled |-> ag[RegistrationOrder[i]].enabled,
                      priority |-> ag[RegistrationOrder[i]].priority]] >>
         \o SaveEntries(ag, i + 1)

\* _save_config writing the enabled flags only
_save_config_enabled_only(ag) ==
    DocFile([i \in 1..Len(RegistrationOrder) |->
        [id |-> RegistrationOrder[i],
         val |-> [obj |-> TRUE, keys |-> {"enabled"},
                  enabled |-> ag[RegistrationOrder[i]].enabled,
                  priority |-> 0]]])

_save_config(ag) == DocFile(SaveEntries(ag, 1))

\* AgentSelector.__init__: the defaults, then _load_config
NewSelector(file) == _load_config(DefaultAgents, file)

get_enabled_agents(ag) == { id \in DOMAIN ag : ag[id].enabled }

Op(name, id, value, ret) == [op |-> name, id |-> id, value |-> value, ret |-> ret]

NoView == [seen |-> FALSE, file |-> AbsentFile, before |-> AbsentFile, after |-> AbsentFile]

ConcIdle ==
    /\ writerPc = "idle"
    /\ docBefore = AbsentFile
    /\ mutations = 0
    /\ readerView = NoView
    /\ readerAgents = DefaultAgents

\* no registry in use: the built-in defaults, no file
RegistryIdle ==
    /\ agents = DefaultAgents
    /\ configFile = AbsentFile
    /\ lastOp = Op("none", "", 0, TRUE)
    /\ prevOp = Op("none", "", 0, TRUE)

RegistryInit ==
    /\ configFile \in StoredFiles
    /\ agents = NewSelector(configFile)
    /\ lastOp = Op("construct", "", 0, TRUE)
    /\ prevOp = Op("none", "", 0, TRUE)
    /\ ConcIdle
    /\ LlmIdle
    /\ EvalIdle

\* toggle_agent without the project_advisor guard
toggle_agent_noguard(id) ==
    /\ prevOp' = lastOp
    /\ IF id \in DOMAIN agents
       THEN /\ agents' = [agents EXCEPT ![id].enabled = ~agents[id].enabled]
            /\ configFile' = _save_config(agents')
            /\ lastOp' = Op("toggle_agent", id, 0, TRUE)
       ELSE /\ UNCHANGED <<agents, configFile>>
            /\ lastOp' = Op("toggle_agent", id, 0, FALSE)
    /\ UNCHANGED <<concVars, llmVars, evalVars>>

toggle_agent(id) ==
    /\ prevOp' = lastOp
    /\ IF id \in DOMAIN agents /\ id # PrivilegedId
       THEN /\ agents' = [agents EXCEPT ![id].enabled = ~agents[id].enabled]
            /\ configFile' = _save_config(agents')
            /\ lastOp' = Op("toggle_agent", id, 0, TRUE)
       ELSE /\ UNCHANGED <<agents, configFile>>
            /\ lastOp' = Op("toggle_agent", id, 0, FALSE)
    /\ UNCHANGED <<concVars, llmVars, evalVars>>

set_agent_priority(id, priority) ==
    /\ prevOp' = lastOp
    /\ IF id \in DOMAIN agents
       THEN /\ agents' = [agents EXCEPT ![id].priority = priority]
            /\ configFile' = _save_config(agents')
            /\ lastOp' = Op("set_agent_priority", id, priority, TRUE)
       ELSE /\ UNCHANGED <<agents, configFile>>
            /\ lastOp' = Op("set_agent_priority", id, priority, FALSE)
    /\ UNCHANGED <<concVars, llmVars, evalVars>>

\* a fresh AgentSelector constructed on the same configuration file
Construct ==
    /\ prevOp' = lastOp
    /\ agents' = NewSelector(configFile)
    /\ lastOp' = Op("construct", "", 0, TRUE)
    /\ UNCHANGED configFile
    /\ UNCHANGED <<concVars, llmVars, evalVars>>

RegistryNext ==
    \/ \E id \in AgentIdInputs : toggle_agent(id)
    \/ \E id \in AgentIdInputs : \E p \in PriorityInputs : set_agent_priority(id, p)
    \/ Construct

SpecRegistry == RegistryInit /\ [][RegistryNext]_vars

-----------------------------------------------------------------------------
(* _save_config at the granularity of its file operations, with a second   *)
(* AgentSelector constructed on the same file at any moment.               *)
(* open(self.config_file, 'w') truncates the file; json.dump writes into   *)
(* the file object's buffer, which reaches the file when the with block    *)
(* closes it (the nine-entry document is smaller than the buffer).         *)

\* mutations one run writes
MaxMutations == 2

\* the file before the first mutation: none yet, or one the program saved
ConcFiles == {AbsentFile, _save_config(DefaultAgents)}

ConcInit ==
    /\ configFile \in ConcFiles
    /\ agents = NewSelector(configFile)
    /\ lastOp = Op("construct", "", 0, TRUE)
    /\ prevOp = Op("none", "", 0, TRUE)
    /\ writerPc = "idle"
    /\ docBefore = configFile
    /\ mutations = 0
    /\ readerView = NoView
    /\ readerAgents = DefaultAgents
    /\ LlmIdle
    /\ EvalIdle

\* toggle_agent up to the open() of _save_config (agent_selector.py:149-156, 108)
ToggleOpen(id) ==
    /\ writerPc = "idle"
    /\ mutations < MaxMutations
    /\ prevOp' = lastOp
    /\ IF id \in DOMAIN agents /\ id # PrivilegedId
       THEN /\ agents' = [agents EXCEPT ![id].enabled = ~agents[id].enabled]
            /\ docBefore' = configFile
            /\ configFile' = EmptyFile
            /\ writerPc' = "writing"
            /\ lastOp' = Op("toggle_agent", id, 0, TRUE)
       ELSE /\ UNCHANGED <<agents, configFile, docBefore, writerPc>>
            /\ lastOp' = Op("toggle_agent", id, 0, FALSE)
    /\ UNCHANGED <<mutations, readerView, readerAgents, llmVars, evalVars>>

\* set_agent_priority up to the open() of _save_config (agent_selector.py:171-173, 108)
SetPriorityOpen(id, priority) ==
    /\ writerPc = "idle"
    /\ mutations < MaxMutations
    /\ prevOp' = lastOp
    /\ IF id \in DOMAIN agents
       THEN /\ agents' = [agents EXCEPT ![id].priority = priority]
            /\ docBefore' = configFile
            /\ configFile' = EmptyFile
            /\ writerPc' = "writing"
            /\ lastOp' = Op("set_agent_priority", id, priority, TRUE)
       ELSE /\ UNCHANGED <<agents, configFile, docBefore, writerPc>>
            /\ lastOp' = Op("set_agent_priority", id, priority, FALSE)
    /\ UNCHANGED <<mutations, readerView, readerAgents, llmVars, evalVars>>

\* json.dump and the close of the with block (agent_selector.py:109), then
\* the return True of the mutation
DumpAndClose ==
    /\ writerPc = "writing"
    /\ configFile' = _save_config(agents)
    /\ writerPc' = "idle"
    /\ mutations' = mutations + 1
    /\ UNCHANGED <<agents, lastOp, prevOp, docBefore, readerView, readerAgents, llmVars, evalVars>>

\* the write raises OSError (the disk is full, the device fails): the file
\* keeps what reached it, nothing or an incomplete text; the except branch
\* of _save_config prints the error (agent_selector.py:110-111) and the
\* mutation returns True
DumpFails ==
    /\ writerPc = "writing"
    /\ configFile' \in {EmptyFile, GarbageFile}
    /\ writerPc' = "idle"
    /\ mutations' = mutations + 1
    /\ UNCHANGED <<agents, lastOp, prevOp, docBefore, readerView, readerAgents, llmVars, evalVars>>

\* another AgentSelector is constructed on the file: os.path.exists, open,
\* json.load (agent_selector.py:87-96)
ReaderLoad ==
    /\ readerView' = [seen |-> TRUE, file |-> configFile, before |-> docBefore,
                      after |-> _save_config(agents)]
    /\ readerAgents' = NewSelector(configFile)
    /\ UNCHANGED <<registryVars, writerPc, docBefore, mutations, llmVars, evalVars>>

ConcNext ==
    \/ \E id \in AgentIdInputs : ToggleOpen(id)
    \/ \E id \in AgentIdInputs : \E p \in PriorityInputs : SetPriorityOpen(id, p)
    \/ DumpAndClose
    \/ DumpFails
    \/ ReaderLoad

SpecConc == ConcInit /\ [][ConcNext]_vars

-----------------------------------------------------------------------------
(* Output schemas: the pydantic models of src/agents/*.py                  *)

F(name, type) == [name |-> name, type |-> type]

\* the shape every persona signal has: three scores, reasoning, two lists
Sig(s1, s2, s3, l1, l2) ==
    << F(s1, "float"), F(s2, "float"), F(s3, "float"),
       F("reasoning", "str"), F(l1, "list_str"), F(l2, "list_str") >>

\* model_fields of each schema, in declaration order
SchemaFields ==
    [ SamAltmanSignal |->
        Sig("opportunity_score", "market_potential", "technical_feasibility",
            "key_insights", "potential_risks"),
      DemisHassabisSignal |->
        Sig("scientific_breakthrough_potential", "technical_advancement",
            "research_feasibility", "key_breakthroughs", "research_challenges"),
      ElonMuskSignal |->
        Sig("opportunity_score", "market_potential", "technical_feasibility",
            "key_insights", "potential_risks"),
      AdamDAngeloSignal |->
        Sig("platform_potential", "ai_infrastructure", "social_impact",
            "key_features", "platform_challenges"),
      DanielGrossSignal |->
        Sig("startup_potential", "ai_infrastructure", "market_fit",
            "key_advantages", "startup_challenges"),
      SebastianThrunSignal |->
        Sig("autonomous_systems_score", "educational_impact", "innovation_potential",
            "key_innovations", "technical_challenges"),
      EmadMostaqueSignal |->
        Sig("infrastructure_score", "open_source_potential", "community_impact",
            "key_infrastructure", "community_challenges"),
      ClementDelangueSignal |->
        Sig("ai_innovation_score", "practical_application", "technical_feasibility",
            "key_ai_features", "implementation_challenges"),
      ProjectRecommendation |->
        << F("pursue_project", "bool"), F("confidence_score", "float"),
           F("key_factors", "list_str"), F("resource_requirements", "list_str"),
           F("timeline", "model"), F("next_steps", "list_str"),
           F("alternative_suggestions", "list_str") >> ]

SchemaNames == DOMAIN SchemaFields

FieldNames(schema) ==
    { SchemaFields[schema][i].name : i \in 1..Len(SchemaFields[schema]) }

FieldType(schema, f) ==
    LET i == CHOOSE k \in 1..Len(SchemaFields[schema]) : SchemaFields[schema][k].name = f
    IN SchemaFields[schema][i].type

\* Values are modelled by their kind: "float", "int", "str", "list_str",
\* "bool", "dict", "model" (a nested record), "none" (None) and "type" (a
\* class object such as str).
\* pydantic validation of one value against a field annotation
Accepts(type, kind) ==
    CASE type = "float" -> kind \in {"float", "int"}
      [] type = "int" -> kind = "int"
      [] type = "str" -> kind = "str"
      [] type = "list_str" -> kind = "list_str"
      [] type = "bool" -> kind = "bool"
      [] type = "model" -> kind \in {"model", "dict"}
      [] OTHER -> FALSE

\* pydantic_model(**values) raises ValidationError unless every declared field
\* is given an acceptable value
Validates(schema, values) ==
    \A f \in FieldNames(schema) :
        f \in DOMAIN values /\ Accepts(FieldType(schema, f), values[f])

\* the instance pydantic_model(**values) builds: the declared fields only
Instance(schema, values, origin) ==
    [kind |-> "instance", schema |-> schema, origin |-> origin,
     values |-> [f \in FieldNames(schema) |-> values[f]]]

NoResult == [kind |-> "none", schema |-> "", origin |-> "", values |-> << >>]

-----------------------------------------------------------------------------
(* Structured-call layer: src/utils/llm.py, src/utils/ollama_utils.py      *)

\* max_retries: int = 3 (llm.py:76)
DefaultMaxRetries == 3

RetryInputs == 1..DefaultMaxRetries

\* the branch of call_llm_with_model taken: the Ollama loop (llm.py:95-124),
\* or the provider loop with structured output (json_mode) or with manual
\* extraction of the JSON (llm.py:127-165)
CodePaths == {"ollama", "json_mode", "manual_json"}

\* the value kinds of an object that satisfies the schema
ValidValues(schema) ==
    [f \in FieldNames(schema) |->
        LET t == FieldType(schema, f) IN IF t = "model" THEN "dict" ELSE t]

\* the same object without its first declared field
PartialValues(schema) ==
    LET first == SchemaFields[schema][1].name
    IN [f \in FieldNames(schema) \ {first} |-> ValidValues(schema)[f]]

\* the same object with a string where the first declared field is typed
\* otherwise
MistypedValues(schema) ==
    LET first == SchemaFields[schema][1].name
    IN [ValidValues(schema) EXCEPT ![first] = "str"]

\* What one call of the backend can produce.
\*   Ollama: the POST fails or answers a status other than 200, or answers
\*   200 with a text.  Provider: invoke raises, returns an instance
\*   (json_mode), or returns a message whose content is a text.
OllamaRaw ==
    {"transport_error", "http_error", "valid_object", "partial_object",
     "mistyped_object", "empty_object", "array", "prose", "broken_json"}

JsonModeRaw == {"raise", "instance"}

ManualRaw ==
    {"raise", "fenced_valid", "fenced_partial", "fenced_broken",
     "fenced_empty_object", "unfenced_valid"}

RawOutcomes(path) ==
    CASE path = "ollama" -> OllamaRaw
      [] path = "json_mode" -> JsonModeRaw
      [] OTHER -> ManualRaw

\* ollama_utils.extract_json_from_response on the text of the answer: the
\* span from the first "{" to the last "}", else from the first "[" to the
\* last "]", parsed; None when there is no span or the parse fails
OllamaExtract(raw) ==
    CASE raw \in {"valid_object", "partial_object", "mistyped_object"} -> "dict"
      [] raw = "empty_object" -> "empty_dict"
      [] raw = "array" -> "list"
      [] OTHER -> "None"

\* call_ollama with an output_format: None on any failure of the request,
\* the extracted JSON when it is truthy, else the raw text
call_ollama(raw) ==
    IF raw \in {"transport_error", "http_error"} THEN "None"
    ELSE IF OllamaExtract(raw) \in {"dict", "list"} THEN OllamaExtract(raw)
    ELSE "str"

\* llm.extract_json_from_response: the text between ```json and the next ```
\* parsed; None without the fence or when the parse fails
LlmExtract(raw) ==
    CASE raw \in {"fenced_valid", "fenced_partial"} -> "dict"
      [] raw = "fenced_empty_object" -> "empty_dict"
      [] OTHER -> "None"

\* the keyword arguments a parsed object supplies
ObjectValues(schema, raw) ==
    CASE raw \in {"valid_object", "fenced_valid"} -> ValidValues(schema)
      [] raw \in {"partial_object", "fenced_partial"} -> PartialValues(schema)
      [] OTHER -> MistypedValues(schema)

\* create_default_response: the placeholder chosen from field.annotation
DefaultValueKind(type) ==
    CASE type = "str" -> "str"
      [] type = "float" -> "float"
      [] type = "int" -> "int"
      [] type = "dict" -> "dict"
      [] type = "list_str" -> "type"    \* annotation.__args__[0], the class str
      [] OTHER -> "none"                \* no __args__: None

DefaultValues(schema) ==
    [f \in FieldNames(schema) |-> DefaultValueKind(FieldType(schema, f))]

\* create_default_response(model_class): model_class(**default_values)
create_default_response(schema) ==
    IF Validates(schema, DefaultValues(schema))
    THEN [pc |-> "returned",
          result |-> Instance(schema, DefaultValues(schema), "default_response")]
    ELSE [pc |-> "raised", result |-> NoResult]

\* default_factory(): the caller's own default instance
default_factory(schema) ==
    [pc |-> "returned",
     result |-> Instance(schema, ValidValues(schema), "default_factory")]

Continue == [pc |-> "loop", result |-> NoResult]

\* the except branch of both loops (llm.py:113-121, 153-162)
OnException(args, a) ==
    IF a = args.max_retries - 1
    THEN IF args.default_factory THEN default_factory(args.schema)
         ELSE create_default_response(args.schema)
    ELSE Continue

\* the body of the Ollama loop for attempt a (llm.py:97-121)
OllamaAttempt(args, a, raw) ==
    IF call_ollama(raw) = "dict"
    THEN IF Validates(args.schema, ObjectValues(args.schema, raw))
         THEN [pc |-> "returned",
               result |-> Instance(args.schema, ObjectValues(args.schema, raw), "backend")]
         ELSE OnException(args, a)
    ELSE IF a = args.max_retries - 1 /\ args.default_factory
         THEN default_factory(args.schema)
         ELSE Continue

\* the body of the provider loop for attempt a (llm.py:141-162)
ProviderAttempt(args, a, raw) ==
    IF raw = "raise" THEN OnException(args, a)
    ELSE IF args.path = "json_mode"
    THEN [pc |-> "returned",
          result |-> Instance(args.schema, ValidValues(args.schema), "backend")]
    ELSE IF LlmExtract(raw) = "dict"
    THEN IF Validates(args.schema, ObjectValues(args.schema, raw))
         THEN [pc |-> "returned",
               result |-> Instance(args.schema, ObjectValues(args.schema, raw), "backend")]
         ELSE OnException(args, a)
    ELSE Continue

AttemptOutcome(args, a, raw) ==
    IF args.path = "ollama" THEN OllamaAttempt(args, a, raw)
    ELSE ProviderAttempt(args, a, raw)

\* range(max_retries + 1): one iteration too many
InRange_inclusive(a, max_retries) == a <= max_retries

\* for attempt in range(max_retries)
InRange(a, max_retries) == a < max_retries

\* leaving the loop without a return: llm.py:124 and llm.py:165
AfterLoop(args, a, out) ==
    IF out.pc = "loop" /\ ~InRange(a, args.max_retries)
    THEN create_default_response(args.schema)
    ELSE out

LlmArgs ==
    [schema : SchemaNames, max_retries : RetryInputs,
     default_factory : BOOLEAN, path : CodePaths]

\* call_llm_with_model is entered
LlmInit ==
    /\ RegistryIdle
    /\ ConcIdle
    /\ EvalIdle
    /\ llmArgs \in LlmArgs
    /\ attempt = 0
    /\ history = << >>
    /\ llmPc = AfterLoop(llmArgs, 0, Continue).pc
    /\ llmResult = AfterLoop(llmArgs, 0, Continue).result
    /\ content = << >>
    /\ extracted = [pc |-> "idle", parsed |-> FALSE, value |-> << >>]

\* one iteration of the retry loop: one backend call and what follows it
Attempt(raw) ==
    /\ llmPc = "loop"
    /\ InRange(attempt, llmArgs.max_retries)
    /\ LET out == AfterLoop(llmArgs, attempt + 1,
                            AttemptOutcome(llmArgs, attempt, raw))
       IN /\ llmPc' = out.pc
          /\ llmResult' = out.result
    /\ history' = Append(history, raw)
    /\ attempt' = attempt + 1
    /\ UNCHANGED <<llmArgs, content, extracted, registryVars, concVars, evalVars>>

\* an iteration of the loop at llm.py:96
OllamaCall(raw) == llmArgs.path = "ollama" /\ Attempt(raw)

\* an iteration of the loop at llm.py:140
ProviderCall(raw) == llmArgs.path # "ollama" /\ raw \in RawOutcomes(llmArgs.path) /\ Attempt(raw)

LlmNext ==
    \/ \E raw \in OllamaRaw : OllamaCall(raw)
    \/ \E raw \in JsonModeRaw \cup ManualRaw : ProviderCall(raw)

SpecLLM == LlmInit /\ [][LlmNext]_vars

-----------------------------------------------------------------------------
(* Persona evaluators: src/agents/*.py                                     *)

\* 1.0 in fixed point; every input score is a multiple of 0.5
ScoreScale == 144
Half == ScoreScale \div 2

\* dict order of ProductOrchestrator.all_agents (orchestrator.py:48-58)
AgentOrder ==
    << "Sam Altman", "Demis Hassabis", "Elon Musk", "Adam D'Angelo",
       "Daniel Gross", "Sebastian Thrun", "Emad Mostaque",
       "Clement Delangue", "Project Advisor" >>

AllAgentNames == { AgentOrder[i] : i \in 1..Len(AgentOrder) }

AdvisorName == "Project Advisor"

ScoringPersonas == AllAgentNames \ {AdvisorName}

\* a name all_agents does not hold
UnknownName == "Unknown Agent"

\* For each scoring persona: the signal class its output function builds, the
\* six keys its output function asks the model for, fills in and passes to the
\* except-branch constructor (score, score, score, reasoning, list, list),
\* and the default items of the two lists.
PersonaTable ==
    [n \in ScoringPersonas |->
        CASE n = "Sam Altman" ->
               [schema |-> "SamAltmanSignal",
                keys |-> << "opportunity_score", "market_potential",
                            "technical_feasibility", "reasoning",
                            "key_insights", "potential_risks" >>,
                d1 |-> "Default insight", d2 |-> "Default risk"]
          [] n = "Demis Hassabis" ->
               [schema |-> "DemisHassabisSignal",
                keys |-> << "scientific_breakthrough_potential", "technical_advancement",
                            "research_feasibility", "reasoning",
                            "key_breakthroughs", "research_challenges" >>,
                d1 |-> "Default breakthrough", d2 |-> "Default challenge"]
          [] n = "Elon Musk" ->
               [schema |-> "ElonMuskSignal",
                keys |-> << "first_principles_score", "innovation_potential",
                            "execution_feasibility", "reasoning",
                            "key_innovations", "technical_challenges" >>,
                d1 |-> "Default innovation", d2 |-> "Default challenge"]
          [] n = "Adam D'Angelo" ->
               [schema |-> "AdamDAngeloSignal",
                keys |-> << "platform_potential", "ai_infrastructure",
                            "social_impact", "reasoning",
                            "key_features", "platform_challenges" >>,
                d1 |-> "Default feature", d2 |-> "Default challenge"]
          [] n = "Daniel Gross" ->
               [schema |-> "DanielGrossSignal",
                keys |-> << "startup_potential", "ai_infrastructure",
                            "market_fit", "reasoning",
                            "key_advantages", "startup_challenges" >>,
                d1 |-> "Default advantage", d2 |-> "Default challenge"]
          [] n = "Sebastian Thrun" ->
               [schema |-> "SebastianThrunSignal",
                keys |-> << "autonomous_systems_score", "educational_impact",
                            "innovation_potential", "reasoning",
                            "key_innovations", "technical_challenges" >>,
                d1 |-> "Default innovation", d2 |-> "Default challenge"]
          [] n = "Emad Mostaque" ->
               [schema |-> "EmadMostaqueSignal",
                keys |-> << "infrastructure_score", "open_source_potential",
                            "community_impact", "reasoning",
                            "key_infrastructure", "community_challenges" >>,
                d1 |-> "Default component", d2 |-> "Default challenge"]
          [] OTHER ->
               [schema |-> "ClementDelangueSignal",
                keys |-> << "ai_innovation_score", "practical_application",
                            "technical_feasibility", "reasoning",
                            "key_ai_features", "implementation_challenges" >>,
                d1 |-> "Default feature", d2 |-> "Default challenge"] ]

KeySet(n) == { PersonaTable[n].keys[i] : i \in 1..6 }

\* the dict of defaults the output function uses when the text holds no JSON,
\* and, key by key, for the keys the parsed object lacks
FillDefaults(n) ==
    LET k == PersonaTable[n].keys
    IN [f \in KeySet(n) |->
          CASE f \in {k[1], k[2], k[3]} -> Num(Half)
            [] f = k[4] -> Txt("Unable to generate detailed reasoning.")
            [] f = k[5] -> Lst(<< PersonaTable[n].d1 >>)
            [] OTHER -> Lst(<< PersonaTable[n].d2 >>)]

\* the keyword arguments of the constructor in the except branch
ExceptDefaults(n) ==
    [FillDefaults(n) EXCEPT ![PersonaTable[n].keys[4]] =
        Txt("Error occurred during evaluation.")]

\* What the final call_llm(prompt, output_format) of an output function can
\* give: it raises; it returns None (the Ollama request failed), a JSON array,
\* a text without JSON ("prose"), a text whose braces do not parse, the empty
\* object, or an object:
\*   object_declared   every field the signal class declares
\*   object_prompted   every key the prompt asks for
\*   object_partial    the prompted keys without the first score and list
\*   object_mistyped   the declared fields, the first score a string
\*   object_high       the declared fields, the first score above 1
FinalAnswers ==
    {"raise", "None", "array", "prose", "broken_json", "empty_object",
     "object_declared", "object_prompted", "object_partial",
     "object_mistyped", "object_high"}

\* an object holding the six keys ks with the scores a, b, c
ObjectOf(ks, a, b, c) ==
    [f \in { ks[i] : i \in 1..6 } |->
        CASE f = ks[1] -> a
          [] f = ks[2] -> b
          [] f = ks[3] -> c
          [] f = ks[4] -> Txt("model reasoning")
          [] f = ks[5] -> Lst(<< "insight A", "insight B" >>)
          [] OTHER -> Lst(<< "risk A" >>)]

DeclaredKeys(n) ==
    [i \in 1..6 |-> SchemaFields[PersonaTable[n].schema][i].name]

Restrict(obj, keys) == [f \in keys |-> obj[f]]

AnswerObject(n, ans) ==
    CASE ans = "object_declared" ->
           ObjectOf(DeclaredKeys(n), Num(ScoreScale), Num(0), Num(Half))
      [] ans = "object_prompted" ->
           ObjectOf(PersonaTable[n].keys, Num(ScoreScale), Num(0), Num(Half))
      [] ans = "object_partial" ->
           Restrict(ObjectOf(PersonaTable[n].keys, Num(0), Num(ScoreScale), Num(0)),
                    KeySet(n) \ {PersonaTable[n].keys[1], PersonaTable[n].keys[5]})
      [] ans = "object_mistyped" ->
           ObjectOf(DeclaredKeys(n), Txt("high"), Num(0), Num(Half))
      [] ans = "object_high" ->
           ObjectOf(DeclaredKeys(n), Num(ScoreScale + Half), Num(0), Num(Half))
      [] OTHER -> EmptyObject

Kinds(obj) == [f \in DOMAIN obj |-> obj[f].kind]

\* an instance of a pydantic model: its class and its declared fields
Record(schema, obj) ==
    [type |-> schema, fields |-> [f \in FieldNames(schema) |-> obj[f]]]

Returns(v) == [raised |-> FALSE, value |-> v]
Raises == [raised |-> TRUE, value |-> NoneSlot]

\* Signal(**kwargs): the instance, or ValidationError
Build(schema, obj) ==
    IF Validates(schema, Kinds(obj)) THEN Returns(Record(schema, obj)) ELSE Raises

\* "if key not in parsed_response: parsed_response[key] = default"
FillMissing(n, obj) ==
    [f \in DOMAIN obj \cup KeySet(n) |->
        IF f \in DOMAIN obj THEN obj[f] ELSE FillDefaults(n)[f]]

\* generate_<persona>_output: the try block, then the except block, whose
\* constructor call is not guarded
generate_output(n, ans) ==
    LET schema == PersonaTable[n].schema
        inExcept == Build(schema, ExceptDefaults(n))
        parsed == IF ans \in {"prose", "broken_json"} THEN FillDefaults(n)
                  ELSE AnswerObject(n, ans)
    IN IF ans \in {"raise", "None", "array"} THEN inExcept
       ELSE IF Validates(schema, Kinds(FillMissing(n, parsed)))
            THEN Returns(Record(schema, FillMissing(n, parsed)))
            ELSE inExcept

\* What the evaluator of a scoring persona is answered: "sub_raise" is a
\* sub-analysis call_llm(prompt) that raises (the four calls are outside any
\* try), "no_llm" the first of them raising the ValueError of call_llm;
\* otherwise the sub-analyses return and the final call gives the answer.
AgentAnswers == {"sub_raise", "no_llm"} \cup FinalAnswers

\* <persona>_agent(state)
persona_agent(n, ans) ==
    IF ans \in {"sub_raise", "no_llm"} THEN Raises ELSE generate_output(n, ans)

\* the fallback ProjectRecommendation of _generate_recommendation
\* (project_advisor.py:199-234)
FallbackRecommendation ==
    [type |-> "ProjectRecommendation",
     fields |->
        [f \in FieldNames("ProjectRecommendation") |->
            CASE f = "pursue_project" -> Bool(FALSE)
              [] f = "confidence_score" -> Num(0)
              [] f = "key_factors" ->
                   Lst(<< "Error occurred during analysis",
                          "Unable to parse recommendation",
                          "Please check the input data and try again" >>)
              [] f = "resource_requirements" ->
                   Lst(<< "Technical review needed", "Data validation required",
                          "System check necessary" >>)
              [] f = "timeline" -> Nested("To be determined")
              [] f = "next_steps" ->
                   Lst(<< "Review input data for completeness",
                          "Validate agent insights",
                          "Retry analysis with verified data" >>)
              [] OTHER ->
                   Lst(<< "Consider simplifying the product idea",
                          "Break down into smaller components",
                          "Gather more specific requirements" >>)]]

\* what call_llm(formatted_prompt) gives the Project Advisor: it raises, or
\* returns None, a text without a ``` fence, or a text with one
AdvisorAnswers == {"raise", "no_llm", "None", "no_fence", "fenced"}

\* project_advisor_agent(state): call_llm is outside the try; inside it,
\* None.split raises AttributeError, [1] raises IndexError without a fence,
\* and with a fence json.dumps gives a str, so that the field checks raise
\* ValueError or recommendation_data["timeline"] raises TypeError: every
\* answer that returns ends in the fallback record
project_advisor_agent(ans) ==
    IF ans \in {"raise", "no_llm"} THEN Raises ELSE Returns(FallbackRecommendation)

-----------------------------------------------------------------------------
(* Evaluation orchestrator: src/orchestrator.py                            *)

Route(b, f) == [bucket |-> b, field |-> f]

\* the "+=" lines of each isinstance block (orchestrator.py:147-225): the
\* bucket and the signal field added to it
Routing ==
    [n \in ScoringPersonas |->
        CASE n = "Sam Altman" ->
               << Route("opportunity_score", "opportunity_score"),
                  Route("market_potential", "market_potential"),
                  Route("technical_feasibility", "technical_feasibility") >>
          [] n = "Demis Hassabis" ->
               << Route("scientific_breakthrough_potential", "scientific_breakthrough_potential"),
                  Route("technical_advancement", "technical_advancement"),
                  Route("research_feasibility", "research_feasibility") >>
          [] n = "Elon Musk" ->
               << Route("opportunity_score", "opportunity_score"),
                  Route("market_potential", "market_potential"),
                  Route("technical_feasibility", "technical_feasibility") >>
          [] n = "Adam D'Angelo" ->
               << Route("platform_potential", "platform_potential"),
                  Route("ai_infrastructure", "ai_infrastructure"),
                  Route("social_impact", "social_impact") >>
          [] n = "Daniel Gross" ->
               << Route("startup_potential", "startup_potential"),
                  Route("ai_infrastructure", "ai_infrastructure"),
                  Route("market_potential", "market_fit") >>
          [] n = "Sebastian Thrun" ->
               << Route("autonomous_systems_score", "autonomous_systems_score"),
                  Route("educational_impact", "educational_impact"),
                  Route("innovation_potential", "innovation_potential") >>
          [] n = "Emad Mostaque" ->
               << Route("ai_infrastructure", "infrastructure_score"),
                  Route("social_impact", "community_impact"),
                  Route("technical_feasibility", "open_source_potential") >>
          [] OTHER ->
               << Route("ai_infrastructure", "ai_innovation_score"),
                  Route("technical_feasibility", "technical_feasibility"),
                  Route("market_potential", "practical_application") >> ]

\* the two lists each block extends key_insights and potential_risks with
\* (orchestrator.py:249-279)
ListFields ==
    [n \in ScoringPersonas |->
        CASE n = "Sam Altman" -> << "key_insights", "potential_risks" >>
          [] n = "Demis Hassabis" -> << "key_breakthroughs", "research_challenges" >>
          [] n = "Elon Musk" -> << "key_insights", "potential_risks" >>
          [] n = "Adam D'Angelo" -> << "key_features", "platform_challenges" >>
          [] n = "Daniel Gross" -> << "key_advantages", "startup_challenges" >>
          [] n = "Sebastian Thrun" -> << "key_innovations", "technical_challenges" >>
          [] n = "Emad Mostaque" -> << "key_infrastructure", "community_challenges" >>
          [] OTHER -> << "key_ai_features", "implementation_challenges" >> ]

\* isinstance(agent_insights.get(name), Class)
IsInstance(insights, n, schema) ==
    n \in DOMAIN insights /\ insights[n].type = schema

\* one "scores[b] += signal.f; score_counts[b] += 1" pair
AddRoute(acc, sig, r) ==
    [sum |-> [acc.sum EXCEPT ![r.bucket] = @ + sig.fields[r.field].num],
     count |-> [acc.count EXCEPT ![r.bucket] = @ + 1]]

\* the isinstance blocks from the i-th persona on, in source order
RECURSIVE Accumulate(_, _, _)
Accumulate(acc, insights, i) ==
    IF i > Len(AgentOrder) THEN acc
    ELSE LET n == AgentOrder[i]
         IN IF n \in ScoringPersonas /\ IsInstance(insights, n, PersonaTable[n].schema)
            THEN Accumulate(
                    AddRoute(AddRoute(AddRoute(acc, insights[n], Routing[n][1]),
                                      insights[n], Routing[n][2]),
                             insights[n], Routing[n][3]),
                    insights, i + 1)
            ELSE Accumulate(acc, insights, i + 1)

\* the averaging loop without the division
Average_sum(acc, b) == acc.sum[b]

\* "if score_counts[key] > 0: scores[key] /= score_counts[key]"
Average(acc, b) ==
    IF acc.count[b] > 0 THEN acc.sum[b] \div acc.count[b] ELSE acc.sum[b]

\* scores after orchestrator.py:228-230
BucketScores(insights) ==
    LET acc == Accumulate([sum |-> ZeroScores, count |-> ZeroScores], insights, 1)
    IN [b \in Buckets |-> Average(acc, b)]

\* key_metrics holding the three headline scores only
KeyMetrics_headline ==
    << "market_potential", "technical_feasibility", "innovation_potential" >>

\* key_metrics (orchestrator.py:233-240)
KeyMetrics ==
    << "opportunity_score", "market_potential", "technical_feasibility",
       "scientific_breakthrough_potential", "ai_infrastructure",
       "innovation_potential" >>

RECURSIVE SumMetrics(_, _)
SumMetrics(sc, i) ==
    IF i > Len(KeyMetrics) THEN 0 ELSE sc[KeyMetrics[i]] + SumMetrics(sc, i + 1)

\* sum(scores[metric] for metric in key_metrics) / len(key_metrics)
OverallScore(sc) == SumMetrics(sc, 1) \div Len(KeyMetrics)

\* the extend calls from the i-th persona on; k = 1 for key_insights, 2 for
\* potential_risks
RECURSIVE ExtendLists(_, _, _)
ExtendLists(insights, k, i) ==
    IF i > Len(AgentOrder) THEN << >>
    ELSE LET n == AgentOrder[i]
         IN IF n \in ScoringPersonas /\ IsInstance(insights, n, PersonaTable[n].schema)
            THEN insights[n].fields[ListFields[n][k]].list \o ExtendLists(insights, k, i + 1)
            ELSE ExtendLists(insights, k, i + 1)

\* the fallback of _generate_recommendations (orchestrator.py:350-356)
FallbackRecommendations ==
    << "Conduct more detailed market research",
       "Develop a minimum viable product (MVP)",
       "Assemble a diverse team with complementary skills",
       "Create a detailed roadmap with milestones",
       "Establish key performance indicators (KPIs)" >>

\* what call_llm(prompt) gives _generate_recommendations: as AdvisorAnswers
RecommendationAnswers == {"raise", "no_llm", "None", "no_fence", "fenced"}

\* _generate_recommendations: the except clause names JSONDecodeError,
\* TypeError and ValueError only.  An exception of call_llm escapes (one of
\* the three named is caught, and then the handler's print of the unassigned
\* response raises UnboundLocalError); None.split raises AttributeError;
\* split("```")[1] raises IndexError without a fence; with a fence
\* json.dumps gives a str, the isinstance(dict) test fails and the fallback
\* list is returned
_generate_recommendations(ans) ==
    CASE ans = "raise" ->
           [raised |-> TRUE, error |-> "BackendError", calls |-> 1, value |-> << >>]
      [] ans = "no_llm" ->
           [raised |-> TRUE, error |-> "UnboundLocalError", calls |-> 1, value |-> << >>]
      [] ans = "None" ->
           [raised |-> TRUE, error |-> "AttributeError", calls |-> 1, value |-> << >>]
      [] ans = "no_fence" ->
           [raised |-> TRUE, error |-> "IndexError", calls |-> 1, value |-> << >>]
      [] OTHER ->
           [raised |-> FALSE, error |-> "", calls |-> 1, value |-> FallbackRecommendations]

\* _combine_insights(product_idea, agent_insights); ans is what the model
\* answers the recommendation prompt if it is asked
_combine_insights(idea, insights, ans) ==
    LET sc == BucketScores(insights)
        advisor == IsInstance(insights, AdvisorName, "ProjectRecommendation")
        rec == _generate_recommendations(ans)
    IN IF advisor
       \* project_recommendation.recommendations: the class has no such field
       THEN [raised |-> TRUE, error |-> "AttributeError", scores |-> sc,
             calls |-> 0, evaluation |-> NoEvaluation]
       ELSE IF rec.raised
       THEN [raised |-> TRUE, error |-> rec.error, scores |-> sc,
             calls |-> rec.calls, evaluation |-> NoEvaluation]
       ELSE [raised |-> FALSE, error |-> "", scores |-> sc, calls |-> rec.calls,
             evaluation |->
                [product_idea |-> idea,
                 overall_score |-> OverallScore(sc),
                 market_potential |-> sc["market_potential"],
                 technical_feasibility |-> sc["technical_feasibility"],
                 innovation_potential |-> sc["scientific_breakthrough_potential"],
                 key_insights |-> ExtendLists(insights, 1, 1),
                 potential_risks |-> ExtendLists(insights, 2, 1),
                 agent_insights |-> insights,
                 recommendations |-> rec.value,
                 project_recommendation |-> NoneSlot]]

\* ---- inputs ----
\* call_llm (llm.py:45-68): a backend is configured (use_ollama, or llm built
\* from the API key, llm.py:23-33), or none is; without a backend every call raises
\* ValueError("No LLM available ..."), with one no call does
call_llm(b, ans) == (b = "none") <=> (ans = "no_llm")

\* AgentState({"data": {...}}) (orchestrator.py:97-104): the attribute data
\* of the state is the dict given to the constructor, whose one key is "data"
AgentState(idea, background) ==
    [data |-> [k \in {"data"} |->
                 [product_idea |-> idea,
                  \* "user_background or {}" (orchestrator.py:103)
                  user_background |->
                      IF background = "None" THEN "{}" ELSE background]]]

\* state.data.get(key, default) of project_advisor_agent
\* (project_advisor.py:37-39): looked up in the outer dict
StateDataGet(state, key, default) ==
    IF key \in DOMAIN state.data THEN state.data[key] ELSE default

IdeaInputs == {"", "an AI tutor for schools"}
\* names a selected_agents list is drawn from
SelectableNames == {"Sam Altman", "Daniel Gross", AdvisorName, UnknownName}
\* longest selected_agents list
MaxSelected == 2
\* most evaluators of one run that are answered otherwise than nominally
MaxDeviations == 1
\* the nominal answer: an object with every declared field
NominalAnswer == "object_declared"

Selections ==
    {NoSelection} \cup
    UNION { { [given |-> TRUE, names |-> s] : s \in [1..k -> SelectableNames] } :
            k \in 0..MaxSelected }

Names(sel) == { sel.names[i] : i \in 1..Len(sel.names) }

\* the filter applied also when selected_agents is None, read as no name
InSelection_given(sel, n) == n \in Names(sel)

\* "selected_agents is None", or "name in selected_agents"
InSelection(sel, n) == ~sel.given \/ n \in Names(sel)

\* enabled_agents (orchestrator.py:86-94), in the dict order of all_agents
RECURSIVE EnabledFrom(_, _)
EnabledFrom(sel, i) ==
    IF i > Len(AgentOrder) THEN << >>
    ELSE (IF InSelection(sel, AgentOrder[i]) THEN << AgentOrder[i] >> ELSE << >>)
         \o EnabledFrom(sel, i + 1)

\* enabled_agents built by walking selected_agents instead of all_agents
enabled_agents_listed(sel) ==
    IF ~sel.given THEN EnabledFrom(sel, 1)
    ELSE SelectSeq(sel.names, LAMBDA n : n \in AllAgentNames)

enabled_agents(sel) == EnabledFrom(sel, 1)

Put(f, k, v) == [x \in DOMAIN f \cup {k} |-> IF x = k THEN v ELSE f[x]]

\* the loop body without the assignment of the except branch
Collect_skip(insights, n, out) ==
    IF out.raised THEN insights ELSE Put(insights, n, out.value)

\* the body of the loop at orchestrator.py:108-113
Collect(insights, n, out) ==
    Put(insights, n, IF out.raised THEN NoneSlot ELSE out.value)

\* evaluate_product is entered
EvalInit ==
    /\ RegistryIdle
    /\ ConcIdle
    /\ LlmIdle
    /\ evalPc = "collect"
    /\ product_idea \in IdeaInputs
    /\ selected_agents \in Selections
    /\ agent_insights = EmptyInsights
    /\ invoked = << >>
    /\ answers = NoAnswers
    /\ raisedAgents = {}
    /\ deviations = 0
    /\ scores = ZeroScores
    /\ evaluation = NoEvaluation
    /\ recCalls = 0
    /\ evalError = ""
    /\ backend \in {"configured", "none"}
    \* None (the default), or a dict
    /\ user_background \in {"None", "{experience: founder}"}
    /\ ideaRead = NoAnswers
    /\ advisorRead = NoAdvisorRead

NextAgent == enabled_agents(selected_agents)[Len(invoked) + 1]

\* one iteration of the loop: agent_func(state) and the slot it leaves
RunAgent(n, ans, out) ==
    /\ agent_insights' = Collect(agent_insights, n, out)
    /\ answers' = Put(answers, n, ans)
    /\ LET state == AgentState(product_idea, user_background)
       IN IF n = AdvisorName
          \* project_advisor.py:37-39
          THEN /\ ideaRead' = Put(ideaRead, n, StateDataGet(state, "product_idea", ""))
               /\ advisorRead' =
                     [called |-> TRUE,
                      user_background |-> StateDataGet(state, "user_background", "{}"),
                      agent_insights |->
                          StateDataGet(state, "agent_insights", EmptyInsights)]
          \* state["data"]["product_idea"] (sam_altman.py:25-26 and alike),
          \* state[key] being state.data.get(key) (graph/state.py:11-12)
          ELSE /\ ideaRead' = Put(ideaRead, n, state.data["data"].product_idea)
               /\ UNCHANGED advisorRead
    /\ invoked' = Append(invoked, n)
    /\ raisedAgents' = IF out.raised THEN raisedAgents \cup {n} ELSE raisedAgents
    /\ UNCHANGED <<evalPc, product_idea, selected_agents, scores, evaluation,
                   recCalls, evalError, backend, user_background>>
    /\ UNCHANGED <<registryVars, concVars, llmVars>>

\* an iteration whose agent is a scoring persona
RunPersona(ans) ==
    /\ evalPc = "collect"
    /\ Len(invoked) < Len(enabled_agents(selected_agents))
    /\ NextAgent # AdvisorName
    /\ call_llm(backend, ans)
    /\ deviations' = deviations + (IF ans \in {NominalAnswer, "no_llm"} THEN 0 ELSE 1)
    /\ deviations' <= MaxDeviations
    /\ RunAgent(NextAgent, ans, persona_agent(NextAgent, ans))

\* the iteration whose agent is the Project Advisor
RunAdvisor(ans) ==
    /\ evalPc = "collect"
    /\ Len(invoked) < Len(enabled_agents(selected_agents))
    /\ NextAgent = AdvisorName
    /\ call_llm(backend, ans)
    /\ UNCHANGED deviations
    /\ RunAgent(AdvisorName, ans, project_advisor_agent(ans))

\* orchestrator.py:115-122: _combine_insights, then the assignment of
\* project_recommendation, then the return
Combine(ans) ==
    /\ evalPc = "collect"
    /\ Len(invoked) = Len(enabled_agents(selected_agents))
    /\ call_llm(backend, ans)
    /\ LET c == _combine_insights(product_idea, agent_insights, ans)
       IN /\ scores' = c.scores
          /\ evalError' = c.error
          /\ recCalls' = c.calls
          /\ evalPc' = IF c.raised THEN "raised" ELSE "returned"
          /\ evaluation' =
                IF ~c.raised /\ AdvisorName \in DOMAIN agent_insights
                             /\ agent_insights[AdvisorName] # NoneSlot
                THEN [c.evaluation EXCEPT
                        !.project_recommendation = agent_insights[AdvisorName]]
                ELSE c.evaluation
    /\ UNCHANGED <<product_idea, selected_agents, agent_insights, invoked,
                   answers, raisedAgents, deviations, backend,
                   user_background, ideaRead, advisorRead>>
    /\ UNCHANGED <<registryVars, concVars, llmVars>>

EvalNext ==
    \/ \E ans \in AgentAnswers : RunPersona(ans)
    \/ \E ans \in AdvisorAnswers : RunAdvisor(ans)
    \/ \E ans \in RecommendationAnswers : Combine(ans)

SpecEval == EvalInit /\ [][EvalNext]_vars

-----------------------------------------------------------------------------
(* _combine_insights called on its own with any agent_insights mapping     *)

\* most names one agent_insights mapping holds
MaxSlots == 3

\* the slots a mapping is drawn with: None, a record of another class than
\* the one the block of n tests for, and the records the evaluator of n can
\* leave (nominal scores, the 0.5 defaults, a score above 1)
SlotChoices == 1..5

SlotInput(n, k) ==
    CASE k = 1 -> NoneSlot
      [] k = 2 -> IF n = "Sam Altman"
                  THEN persona_agent("Elon Musk", NominalAnswer).value
                  ELSE persona_agent("Sam Altman", NominalAnswer).value
      [] n = AdvisorName -> FallbackRecommendation
      [] k = 3 -> persona_agent(n, NominalAnswer).value
      [] k = 4 -> persona_agent(n, "empty_object").value
      [] OTHER -> persona_agent(n, "object_high").value

\* names a mapping is drawn over
SlotNames ==
    {"Sam Altman", "Elon Musk", "Daniel Gross", "Clement Delangue", AdvisorName}

InsightMaps(max) ==
    UNION { { [n \in S |-> SlotInput(n, f[n])] : f \in [S -> SlotChoices] } :
            S \in { T \in SUBSET SlotNames : Cardinality(T) <= max } }

CombineInit ==
    /\ RegistryIdle
    /\ ConcIdle
    /\ LlmIdle
    /\ evalPc = "combine"
    /\ product_idea \in IdeaInputs
    /\ selected_agents = NoSelection
    /\ agent_insights \in InsightMaps(MaxSlots)
    /\ invoked = << >>
    /\ answers = NoAnswers
    /\ raisedAgents = {}
    /\ deviations = 0
    /\ scores = ZeroScores
    /\ evaluation = NoEvaluation
    /\ recCalls = 0
    /\ evalError = ""
    /\ backend = "configured"
    /\ user_background = "None"
    /\ ideaRead = NoAnswers
    /\ advisorRead = NoAdvisorRead

\* _combine_insights(product_idea, agent_insights) from entry to return
CombineCall(ans) ==
    /\ evalPc = "combine"
    /\ call_llm(backend, ans)
    /\ LET c == _combine_insights(product_idea, agent_insights, ans)
       IN /\ scores' = c.scores
          /\ evalError' = c.error
          /\ recCalls' = c.calls
          /\ evalPc' = IF c.raised THEN "raised" ELSE "returned"
          /\ evaluation' = c.evaluation
    /\ UNCHANGED <<product_idea, selected_agents, agent_insights, invoked,
                   answers, raisedAgents, deviations, backend,
                   user_background, ideaRead, advisorRead>>
    /\ UNCHANGED <<registryVars, concVars, llmVars>>

CombineNext == \E ans \in RecommendationAnswers : CombineCall(ans)

SpecCombine == CombineInit /\ [][CombineNext]_vars

-----------------------------------------------------------------------------
(* Properties of the agent registry                                        *)

\* C5: in every registry state reachable by constructing an AgentSelector on
\* any stored document followed by any toggle_agent / set_agent_priority
\* calls, project_advisor has enabled = true and is a member of
\* get_enabled_agents().
C5_PrivilegedAlwaysEnabled ==
    /\ agents[PrivilegedId].enabled = TRUE
    /\ PrivilegedId \in get_enabled_agents(agents)

\* C6: toggle_agent(id) returns False when id is project_advisor or is not a
\* registered id, and then leaves the enabled flag and priority of every
\* persona and the persisted document unchanged (an enabled project_advisor
\* stays enabled).
C6_ToggleRefusedFrame ==
    [][ (lastOp'.op = "toggle_agent"
            /\ (lastOp'.id = PrivilegedId \/ lastOp'.id \notin RegisteredIds))
        => /\ lastOp'.ret = FALSE
           /\ agents' = agents
           /\ configFile' = configFile
           /\ (agents[PrivilegedId].enabled => agents'[PrivilegedId].enabled)
      ]_vars

C6_Witness ==
    /\ lastOp.op = "toggle_agent"
    /\ lastOp.id = PrivilegedId
    /\ lastOp.ret = FALSE
    /\ agents[PrivilegedId].enabled
    /\ configFile.kind = "doc"

EntryOf(file, id) ==
    LET i == CHOOSE k \in 1..Len(file.entries) : file.entries[k].id = id
    IN file.entries[i].val

DocIds(file) == { file.entries[i].id : i \in 1..Len(file.entries) }

\* every value stored under a registered id is a JSON object
EntriesAreObjects(file) ==
    \A i \in 1..Len(file.entries) :
        file.entries[i].id \in RegisteredIds => file.entries[i].val.obj

C9_ReaderSeesCompleteDocument ==
    readerView.seen => readerView.file \in {readerView.before, readerView.after}

-----------------------------------------------------------------------------
(* Properties of the structured-call layer                                 *)

\* C3: for every schema and every sequence of malformed, empty, None or
\* exception outcomes of the backend, call_llm_with_model never raises and
\* returns an instance of the schema with every declared field present, also
\* when all max_retries attempts fail and no default_factory is given.
C3_NeverRaisesCompleteRecord ==
    /\ llmPc # "raised"
    /\ (llmPc = "returned"
          => /\ llmResult.kind = "instance"
             /\ llmResult.schema = llmArgs.schema
             /\ DOMAIN llmResult.values = FieldNames(llmArgs.schema))

\* the answers that hold a record satisfying the schema where the code path
\* looks for it
Yields(args, raw) ==
    \/ args.path = "ollama" /\ raw = "valid_object"
    \/ args.path = "json_mode" /\ raw = "instance"
    \/ args.path = "manual_json" /\ raw = "fenced_valid"

\* C4: within one invocation the backend is called at most max_retries
\* times; the first attempt that yields a schema-valid record ends the
\* invocation with that record and no further call is made; a default record
\* is returned only after max_retries attempts have all failed.
C4_BoundedRetries ==
    /\ Len(history) <= llmArgs.max_retries
    /\ \A i \in 1..(Len(history) - 1) : ~Yields(llmArgs, history[i])
    /\ (Len(history) > 0 /\ Yields(llmArgs, history[Len(history)])
          => llmPc = "returned" /\ llmResult.origin = "backend")
    /\ (llmPc = "returned" /\ llmResult.origin # "backend"
          => /\ Len(history) = llmArgs.max_retries
             /\ \A i \in 1..Len(history) : ~Yields(llmArgs, history[i]))
    /\ (llmPc = "loop" => Len(history) < llmArgs.max_retries)

C4_Witness ==
    /\ llmPc = "returned"
    /\ llmArgs.max_retries = DefaultMaxRetries
    /\ Len(history) = DefaultMaxRetries
    /\ llmResult.origin = "default_factory"
    /\ history[1] = "transport_error"
    /\ history[2] = "partial_object"

-----------------------------------------------------------------------------
(* Properties of the evaluation orchestrator                               *)

\* C1: for every idea text, every selected_agents value and every outcome of
\* each model call, evaluate_product returns a ProductEvaluation and never
\* raises.
C1_EvaluateNeverRaises == evalPc # "raised"

\* C2: when a selected persona's evaluator raises, its slot of agent_insights
\* holds None, every other selected persona is still invoked and keeps its
\* signal; in the returned evaluation agent_insights[p] is None exactly for
\* the selected personas whose evaluator raised.
C2_AbsenceMarkers ==
    /\ \A i \in 1..Len(invoked) :
         /\ invoked[i] = enabled_agents(selected_agents)[i]
         /\ invoked[i] \in DOMAIN agent_insights
         /\ (agent_insights[invoked[i]] = NoneSlot <=> invoked[i] \in raisedAgents)
    /\ (evalPc = "returned"
          => /\ invoked = enabled_agents(selected_agents)
             /\ \A p \in AllAgentNames :
                  InSelection(selected_agents, p)
                  => /\ p \in DOMAIN evaluation.agent_insights
                     /\ (evaluation.agent_insights[p] = NoneSlot <=> p \in raisedAgents)
                     /\ (p \in ScoringPersonas /\ p \notin raisedAgents
                           => evaluation.agent_insights[p].type = PersonaTable[p].schema))

C2_Witness ==
    /\ evalPc = "returned"
    /\ selected_agents = NoSelection
    /\ raisedAgents = {"Elon Musk", AdvisorName}
    /\ evaluation.agent_insights["Elon Musk"] = NoneSlot
    /\ evaluation.agent_insights["Sam Altman"].type = "SamAltmanSignal"
    /\ evaluation.agent_insights["Clement Delangue"].type = "ClementDelangueSignal"

\* the contributions of each bucket: persona and signal field
BucketSources ==
    [b \in Buckets |->
        CASE b = "opportunity_score" ->
               { <<"Sam Altman", "opportunity_score">>, <<"Elon Musk", "opportunity_score">> }
          [] b = "market_potential" ->
               { <<"Sam Altman", "market_potential">>, <<"Elon Musk", "market_potential">>,
                 <<"Daniel Gross", "market_fit">>,
                 <<"Clement Delangue", "practical_application">> }
          [] b = "technical_feasibility" ->
               { <<"Sam Altman", "technical_feasibility">>,
                 <<"Elon Musk", "technical_feasibility">>,
                 <<"Emad Mostaque", "open_source_potential">>,
                 <<"Clement Delangue", "technical_feasibility">> }
          [] b = "ai_infrastructure" ->
               { <<"Adam D'Angelo", "ai_infrastructure">>,
                 <<"Daniel Gross", "ai_infrastructure">>,
                 <<"Emad Mostaque", "infrastructure_score">>,
                 <<"Clement Delangue", "ai_innovation_score">> }
          [] b = "social_impact" ->
               { <<"Adam D'Angelo", "social_impact">>,
                 <<"Emad Mostaque", "community_impact">> }
          [] b = "platform_potential" -> { <<"Adam D'Angelo", b>> }
          [] b = "startup_potential" -> { <<"Daniel Gross", b>> }
          [] b \in {"scientific_breakthrough_potential", "technical_advancement",
                    "research_feasibility"} -> { <<"Demis Hassabis", b>> }
          [] OTHER -> { <<"Sebastian Thrun", b>> } ]

\* the contributions of bucket b whose persona has a signal of its own class
\* in the mapping
PresentSources(insights, b) ==
    { x \in BucketSources[b] :
        /\ x[1] \in DOMAIN insights
        /\ insights[x[1]].type = PersonaTable[x[1]].schema }

RECURSIVE SumOver(_, _)
SumOver(S, insights) ==
    IF S = {} THEN 0
    ELSE LET x == CHOOSE y \in S : TRUE
         IN insights[x[1]].fields[x[2]].num + SumOver(S \ {x}, insights)

\* C10: once _combine_insights has averaged, each of the 13 buckets equals
\* the arithmetic mean of the contributions routed to it from the personas
\* whose signal is present, and 0 when there is none; a slot that is None or
\* of another class contributes nothing.
C10_BucketMeans ==
    evalPc \in {"returned", "raised"}
    => /\ DOMAIN scores = Buckets
       /\ Cardinality(Buckets) = 13
       /\ \A b \in Buckets :
            LET present == PresentSources(agent_insights, b)
            IN IF present = {} THEN scores[b] = 0
               ELSE scores[b] * Cardinality(present) = SumOver(present, agent_insights)

C10_Witness ==
    /\ evalPc = "returned"
    /\ DOMAIN agent_insights = {"Sam Altman", "Daniel Gross", "Clement Delangue"}
    /\ agent_insights["Sam Altman"].type = "ElonMuskSignal"
    /\ Cardinality(PresentSources(agent_insights, "market_potential")) = 2
    /\ agent_insights["Daniel Gross"].fields["market_fit"].num = Half
    /\ agent_insights["Clement Delangue"].fields["practical_application"].num = 0
    /\ scores["market_potential"] = Half \div 2
    /\ scores["opportunity_score"] = 0

ListOrder ==
    << "Sam Altman", "Demis Hassabis", "Elon Musk", "Adam D'Angelo",
       "Daniel Gross", "Sebastian Thrun", "Emad Mostaque", "Clement Delangue" >>

\* the k-th lists (the declared fields 5 and 6) of the present personas from
\* the i-th of ListOrder on
RECURSIVE ConcatPresent(_, _, _)
ConcatPresent(insights, k, i) ==
    IF i > Len(ListOrder) THEN << >>
    ELSE LET p == ListOrder[i]
         IN (IF p \in DOMAIN insights /\ insights[p].type = PersonaTable[p].schema
             THEN insights[p].fields[SchemaFields[PersonaTable[p].schema][4 + k].name].list
             ELSE << >>)
            \o ConcatPresent(insights, k, i + 1)

\* C12: the order in which selected_agents lists the personas changes
\* neither the evaluators run nor their order, so the aggregate is the same
\* for every reordering; every bucket and overall_score are functions of the
\* set of present signals, and key_insights and potential_risks are the
\* concatenation of the present personas' lists in the order Sam Altman,
\* Demis Hassabis, Elon Musk, Adam D'Angelo, Daniel Gross, Sebastian Thrun,
\* Emad Mostaque, Clement Delangue, duplicates kept.
C12_OrderIndependent ==
    /\ selected_agents.given
         => \A s \in { r \in Selections :
                        /\ r.given
                        /\ Len(r.names) = Len(selected_agents.names)
                        /\ \A n \in Names(selected_agents) \cup Names(r) :
                             Cardinality({ i \in 1..Len(r.names) : r.names[i] = n })
                               = Cardinality({ i \in 1..Len(selected_agents.names) :
                                                 selected_agents.names[i] = n }) } :
               enabled_agents(s) = enabled_agents(selected_agents)
    /\ \A i \in 1..Len(invoked) : invoked[i] = enabled_agents(selected_agents)[i]
    /\ evalPc = "returned"
         => /\ evaluation.key_insights = ConcatPresent(agent_insights, 1, 1)
            /\ evaluation.potential_risks = ConcatPresent(agent_insights, 2, 1)
            /\ \A b \in Buckets :
                 LET present == PresentSources(agent_insights, b)
                 IN scores[b] * (IF present = {} THEN 1 ELSE Cardinality(present))
                      = SumOver(present, agent_insights)
            /\ evaluation.overall_score * 6 =
                  scores["innovation_potential"] + scores["ai_infrastructure"]
                  + scores["scientific_breakthrough_potential"]
                  + scores["technical_feasibility"] + scores["market_potential"]
                  + scores["opportunity_score"]

C12_Witness ==
    /\ evalPc = "returned"
    /\ selected_agents = [given |-> TRUE, names |-> << "Daniel Gross", "Sam Altman" >>]
    /\ invoked = << "Sam Altman", "Daniel Gross" >>
    /\ evaluation.key_insights = << "insight A", "insight B", "Default advantage" >>
    /\ evaluation.potential_risks = << "risk A", "Default challenge" >>

\* C13: when the 'Project Advisor' slot holds a ProjectRecommendation, the
\* evaluation is returned, its recommendations are a list of that record,
\* unchanged, and no recommendation-synthesis model call has been issued.
C13_AdvisorRecommendationsVerbatim ==
    (evalPc \in {"returned", "raised"}
        /\ IsInstance(agent_insights, AdvisorName, "ProjectRecommendation"))
    => /\ evalPc = "returned"
       /\ recCalls = 0
       /\ \E f \in DOMAIN agent_insights[AdvisorName].fields :
            /\ agent_insights[AdvisorName].fields[f].kind = "list_str"
            /\ evaluation.recommendations = agent_insights[AdvisorName].fields[f].list

\* C14: when no Project Advisor recommendation is present, the evaluation is
\* completed with exactly one recommendation model call and a list of
\* exactly 5 recommendation strings, whatever that call answers: no exception
\* leaves _generate_recommendations.
C14_RecommendationsNeverRaise ==
    (evalPc \in {"returned", "raised"}
        /\ ~IsInstance(agent_insights, AdvisorName, "ProjectRecommendation"))
    => /\ evalPc = "returned"
       /\ recCalls = 1
       /\ Len(evaluation.recommendations) = 5

\* C15: evaluate_product with selected_agents = [] invokes no evaluator and
\* returns an evaluation with overall_score 0, the three headline scores 0,
\* empty key_insights, potential_risks and agent_insights, no
\* project_recommendation and a 5-item recommendations list, whatever the
\* backend answers to the recommendation call.
C15_EmptySelection ==
    (selected_agents = [given |-> TRUE, names |-> << >>]
        /\ evalPc \in {"returned", "raised"})
    => /\ invoked = << >>
       /\ evalPc = "returned"
       /\ evaluation.overall_score = 0
       /\ evaluation.market_potential = 0
       /\ evaluation.technical_feasibility = 0
       /\ evaluation.innovation_potential = 0
       /\ evaluation.key_insights = << >>
       /\ evaluation.potential_risks = << >>
       /\ evaluation.agent_insights = EmptyInsights
       /\ evaluation.project_recommendation = NoneSlot
       /\ Len(evaluation.recommendations) = 5

\* C16: when the final synthesis call of one selected persona fails while
\* another selected persona succeeds, the returned evaluation has None in the
\* failed persona's slot, so that no bucket and neither merged list receives
\* a contribution from it.  The final call failed: it raised, or the request
\* failed and it returned None.
C16_FailedFinalCallIsAbsent ==
    evalPc = "returned"
    => \A p \in ScoringPersonas :
         (/\ p \in DOMAIN answers
          /\ answers[p] \in {"raise", "None"}
          /\ \E q \in ScoringPersonas \ {p} :
               q \in DOMAIN answers /\ answers[q] = NominalAnswer)
         => /\ evaluation.agent_insights[p] = NoneSlot
            /\ \A b \in Buckets :
                 \A x \in PresentSources(evaluation.agent_insights, b) : x[1] # p

\* C17: for each of the eight scoring personas, when the final call returns
\* a JSON object that omits any subset of the declared fields of the
\* persona's signal class, the output function does not raise and returns a
\* signal of that class with every declared field present.
C17_OmittedFieldsAreFilled ==
    \A p \in ScoringPersonas :
        (/\ p \in DOMAIN answers
         /\ answers[p] \in {"empty_object", "object_partial", "object_prompted",
                            "object_declared"})
        => /\ p \notin raisedAgents
           /\ agent_insights[p].type = PersonaTable[p].schema
           /\ DOMAIN agent_insights[p].fields = FieldNames(PersonaTable[p].schema)

\* C18: once the retries are exhausted and no default_factory is given,
\* create_default_response builds, for every persona signal schema, a record
\* holding for each declared field the placeholder of the field's type: a
\* number for a score, a list for a list field, a string for a text field.
C18_TypeDrivenDefaults ==
    (/\ llmArgs.schema \in { PersonaTable[n].schema : n \in ScoringPersonas }
     /\ ~llmArgs.default_factory
     /\ llmPc # "loop"
     /\ Len(history) = llmArgs.max_retries
     /\ \A i \in 1..Len(history) : ~Yields(llmArgs, history[i]))
    => /\ llmPc = "returned"
       /\ llmResult.origin = "default_response"
       /\ \A f \in FieldNames(llmArgs.schema) :
            llmResult.values[f] = FieldType(llmArgs.schema, f)

\* C19: when no backend is usable, so that call_llm raises "No LLM
\* available", evaluate_product ends by raising that ValueError to its caller;
\* the failure is not turned into a None slot of agent_insights, and the
\* invocation does not return an evaluation.
C19_NoBackendIsFatal ==
    backend = "none"
    => /\ \A n \in DOMAIN agent_insights : agent_insights[n] # NoneSlot
       /\ evalPc # "returned"
       /\ evalPc = "raised" => evalError = "ValueError"

\* C20: the evaluators evaluate_product invokes are all nine registered
\* ones when selected_agents is None, and otherwise exactly the registered ones
\* whose name occurs in selected_agents; each is invoked once even if named
\* more than once, and a name that is not registered is never invoked, makes
\* no evaluator raise and gets no entry in agent_insights.
C20_InvokedSet ==
    evalPc \in {"collect", "returned", "raised"}
    => LET expected == IF selected_agents.given
                       THEN Names(selected_agents) \cap AllAgentNames
                       ELSE AllAgentNames
           called == { invoked[i] : i \in 1..Len(invoked) }
       IN /\ called \subseteq expected
          /\ Cardinality(called) = Len(invoked)
          /\ DOMAIN agent_insights = called
          /\ raisedAgents \subseteq called
          /\ evalPc \in {"returned", "raised"} => called = expected

\* a run over a selection that names an unregistered evaluator has ended
C20_Witness ==
    /\ evalPc = "returned"
    /\ selected_agents = [given |-> TRUE, names |-> << UnknownName, "Sam Altman" >>]
    /\ invoked = << "Sam Altman" >>
    /\ DOMAIN evaluation.agent_insights = {"Sam Altman"}

\* C21: every numeric score of every signal a persona evaluator returns lies
\* in [0,1], whatever numbers the model output holds, and so does every
\* bucket, every headline score and the overall_score of the evaluation.
C21_ScoresInUnitInterval ==
    /\ \A n \in DOMAIN agent_insights \cap ScoringPersonas :
         \A f \in DOMAIN agent_insights[n].fields :
            agent_insights[n].fields[f].kind = "float"
            => agent_insights[n].fields[f].num \in 0..ScoreScale
    /\ \A b \in Buckets : scores[b] \in 0..ScoreScale
    /\ evaluation.overall_score \in 0..ScoreScale
    /\ evaluation.market_potential \in 0..ScoreScale
    /\ evaluation.technical_feasibility \in 0..ScoreScale
    /\ evaluation.innovation_potential \in 0..ScoreScale

\* C22: when the Project Advisor is selected with other personas, it is
\* called after every other selected persona has finished, and the
\* agent_insights it reads holds the signal of every other selected persona
\* that produced one.
C22_AdvisorSeesOtherSignals ==
    advisorRead.called
    => /\ invoked[Len(invoked)] = AdvisorName
       /\ \A p \in ScoringPersonas :
            InSelection(selected_agents, p)
            => \E i \in 1..(Len(invoked) - 1) : invoked[i] = p
       /\ \A p \in DOMAIN agent_insights \ {AdvisorName} :
            agent_insights[p] # NoneSlot
            => /\ p \in DOMAIN advisorRead.agent_insights
               /\ advisorRead.agent_insights[p] = agent_insights[p]

\* C25: every evaluator invoked, the Project Advisor included, reads from the
\* state the product idea the caller passed to evaluate_product, and the
\* advisor reads the caller's user background.
C25_SharedEvaluationInput ==
    /\ \A n \in DOMAIN ideaRead : ideaRead[n] = product_idea
    /\ advisorRead.called => advisorRead.user_background =
            (IF user_background = "None" THEN "{}" ELSE user_background)

\* C23: the innovation_potential of a returned evaluation equals the final
\* value of the innovation_potential bucket, as market_potential and
\* technical_feasibility equal the final values of their own buckets.
C23_InnovationHeadline ==
    evalPc = "returned"
    => /\ evaluation.innovation_potential = scores["innovation_potential"]
       /\ evaluation.market_potential = scores["market_potential"]
       /\ evaluation.technical_feasibility = scores["technical_feasibility"]

-----------------------------------------------------------------------------
(* A ProductOrchestrator with its AgentSelector: registry operations on    *)
(* orchestrator.agent_selector, then one evaluate_product                  *)

\* the registry id of the AgentConfig whose name is n
\* (agent_selector.py:33-79, in the order of all_agents)
AgentId(n) ==
    RegistrationOrder[CHOOSE i \in 1..Len(AgentOrder) : AgentOrder[i] = n]

\* ProductOrchestrator.__init__ (orchestrator.py:37-58): the AgentSelector is
\* constructed, here without a stored configuration file
OrchInit ==
    /\ configFile = AbsentFile
    /\ agents = NewSelector(configFile)
    /\ lastOp = Op("construct", "", 0, TRUE)
    /\ prevOp = Op("none", "", 0, TRUE)
    /\ ConcIdle
    /\ LlmIdle
    /\ EvalIdle

\* agent_selector.toggle_agent(id) before the evaluation; at most two
\* registry operations precede it
OrchToggle(id) ==
    /\ evalPc = "idle"
    /\ prevOp.op \in {"none", "construct"}
    /\ toggle_agent(id)

\* agent_selector.set_agent_priority(id, p) before the evaluation
OrchSetPriority(id, p) ==
    /\ evalPc = "idle"
    /\ prevOp.op \in {"none", "construct"}
    /\ set_agent_priority(id, p)

\* evaluate_product(product_idea, selected_agents) is entered
OrchEvaluate ==
    /\ evalPc = "idle"
    /\ evalPc' = "collect"
    /\ product_idea' \in IdeaInputs
    /\ selected_agents' \in Selections
    /\ UNCHANGED <<agent_insights, invoked, answers, raisedAgents, deviations,
                   scores, evaluation, recCalls, evalError, backend,
                   user_background, ideaRead, advisorRead>>
    /\ UNCHANGED <<registryVars, concVars, llmVars>>

\* the evaluators and the recommendation call are answered nominally
OrchNext ==
    \/ \E id \in AgentIdInputs : OrchToggle(id)
    \/ \E id \in AgentIdInputs : \E p \in PriorityInputs : OrchSetPriority(id, p)
    \/ OrchEvaluate
    \/ RunPersona(NominalAnswer)
    \/ RunAdvisor("fenced")
    \/ Combine("fenced")

SpecOrch == OrchInit /\ [][OrchNext]_vars

\* C24: a persona whose registry entry has enabled = false when
\* evaluate_product is called, after any sequence of toggle_agent calls, is
\* not invoked by that evaluation and gets no slot in agent_insights.
C24_DisabledNotInvoked ==
    \A n \in AllAgentNames :
        ~agents[AgentId(n)].enabled
        => /\ \A i \in 1..Len(invoked) : invoked[i] # n
           /\ n \notin DOMAIN agent_insights

\* C26: evaluate_product invokes the selected personas in descending order
\* of the priority the registry holds for them, whatever set_agent_priority
\* calls came before.
C26_PriorityOrder ==
    \A i, j \in 1..Len(invoked) :
        i < j => agents[AgentId(invoked[i])].priority
                   >= agents[AgentId(invoked[j])].priority

-----------------------------------------------------------------------------
(* ollama_utils.extract_json_from_response on a raw text                   *)

\* longest raw text
MaxTextLen == 4

\* The raw texts of at most max characters: the brackets, "v" for a scalar
\* JSON value and "x" for any character of prose.  The members of an object
\* or array are written one after the other, keys and commas left out.
Texts(max) == UNION { [1..n -> {"{", "}", "[", "]", "v", "x"}] : n \in 0..max }

\* the index at which the JSON value that starts at s[i] ends, 0 when the
\* text from s[i] on does not begin with a JSON value
RECURSIVE ValueEnd(_, _, _)
ValueEnd(s, i, stack) ==
    IF i > Len(s) THEN 0
    ELSE CASE s[i] = "x" -> 0
           [] s[i] = "v" -> IF stack = << >> THEN i ELSE ValueEnd(s, i + 1, stack)
           [] s[i] \in {"{", "["} -> ValueEnd(s, i + 1, << IF s[i] = "{" THEN "}" ELSE "]" >> \o stack)
           [] OTHER ->
                IF stack = << >> \/ Head(stack) # s[i] THEN 0
                ELSE IF Len(stack) = 1 THEN i
                ELSE ValueEnd(s, i + 1, Tail(stack))

\* json.loads(s): the value when s is one JSON value and nothing else,
\* otherwise JSONDecodeError
json_loads(s) ==
    IF s # << >> /\ ValueEnd(s, 1, << >>) = Len(s)
    THEN [raised |-> FALSE, parsed |-> TRUE, value |-> s]
    ELSE [raised |-> TRUE, parsed |-> FALSE, value |-> << >>]

\* str.find and str.rfind, 1-based, 0 for not found
Find(s, c) ==
    IF \E i \in 1..Len(s) : s[i] = c
    THEN CHOOSE i \in 1..Len(s) : s[i] = c /\ \A k \in 1..(i - 1) : s[k] # c
    ELSE 0

RFind(s, c) ==
    IF \E i \in 1..Len(s) : s[i] = c
    THEN CHOOSE i \in 1..Len(s) : s[i] = c /\ \A k \in (i + 1)..Len(s) : s[k] # c
    ELSE 0

\* content[json_start:json_end] when json_start >= 0 and json_end > json_start
Between(s, open, close) ==
    IF Find(s, open) > 0 /\ RFind(s, close) > Find(s, open)
    THEN SubSeq(s, Find(s, open), RFind(s, close))
    ELSE << >>

\* extract_json_from_response: the body of the try block
\* (ollama_utils.py:97-112), and "except Exception" returning None
extract_json_from_response(s) ==
    LET ReturnsNone == [raised |-> FALSE, parsed |-> FALSE, value |-> << >>]
        body == IF Between(s, "{", "}") # << >> THEN json_loads(Between(s, "{", "}"))
                ELSE IF Between(s, "[", "]") # << >> THEN json_loads(Between(s, "[", "]"))
                ELSE ReturnsNone
    IN IF body.raised THEN ReturnsNone ELSE body

ExtractInit ==
    /\ RegistryIdle
    /\ ConcIdle
    /\ EvalIdle
    /\ llmArgs = [schema |-> "", max_retries |-> 0, default_factory |-> FALSE, path |-> ""]
    /\ llmPc = "idle"
    /\ attempt = 0
    /\ history = << >>
    /\ llmResult = [kind |-> "none", schema |-> "", origin |-> "", values |-> << >>]
    /\ content \in Texts(MaxTextLen)
    /\ extracted = [pc |-> "called", parsed |-> FALSE, value |-> << >>]

\* the call from entry to return
Extract ==
    /\ extracted.pc = "called"
    /\ LET r == extract_json_from_response(content)
       IN extracted' = [pc |-> IF r.raised THEN "raised" ELSE "returned",
                        parsed |-> r.parsed, value |-> r.value]
    /\ UNCHANGED <<llmArgs, llmPc, attempt, history, llmResult, content>>
    /\ UNCHANGED <<registryVars, concVars, evalVars>>

SpecExtract == ExtractInit /\ [][Extract]_vars

\* C27: extract_json_from_response never raises; when the text holds a
\* balanced {...} or [...] span that is valid JSON it returns the parse of the
\* first such span, also with several objects, braces in the prose or a
\* top-level array of objects; it returns None only when there is no such span.
C27_ExtractsFirstSpan ==
    LET \* the bracketed spans of the text that are a JSON value, as pairs of
        \* start and end index
        spans == { sp \in (1..Len(content)) \X (1..Len(content)) :
                     /\ content[sp[1]] \in {"{", "["}
                     /\ ValueEnd(content, sp[1], << >>) = sp[2] }
    IN extracted.pc \in {"returned", "raised"}
       => /\ extracted.pc = "returned"
          /\ spans = {} => ~extracted.parsed
          /\ spans # {}
               => LET first == CHOOSE sp \in spans : \A o \in spans : sp[1] <= o[1]
                  IN /\ extracted.parsed
                     /\ extracted.value = SubSeq(content, first[1], first[2])

\* C28: once a toggle_agent or set_agent_priority call has returned True,
\* the stored configuration document holds the in-memory enabled and priority
\* values of all nine personas, also when the write failed.
C28_SuccessMeansPersisted ==
    (writerPc = "idle" /\ lastOp.op \in {"toggle_agent", "set_agent_priority"}
        /\ lastOp.ret)
    => configFile = _save_config(agents)

\* C29: when _load_config hits an error partway through the stored
\* document, the constructed registry holds the built-in defaults for every
\* persona: no stored entry is applied.
C29_LoadAllOrNothing ==
    (lastOp.op = "construct" /\ LoadRaises(configFile))
    => agents = DefaultAgents

\* C30: when a stored entry of a registered id lacks the enabled key or the
\* priority key, the constructed registry has that persona's built-in default
\* for the missing setting (enabled = true, the built-in priority 1..9).
C30_MissingKeyKeepsDefault ==
    (lastOp.op = "construct" /\ EntriesAreObjects(configFile))
    => \A id \in RegisteredIds \cap DocIds(configFile) :
          LET v == EntryOf(configFile, id)
          IN /\ "enabled" \notin v.keys
                  => agents[id].enabled = DefaultAgents[id].enabled
             /\ "priority" \notin v.keys
                  => agents[id].priority = DefaultAgents[id].priority

====
